---- MODULE Spec2Model ----
(***************************************************************************)
(* pyjvm: jvm/primitive_limits.h, the limits of the Java primitive types,  *)
(* and the coercion layer that consults them.                              *)
(*                                                                         *)
(* The header defines each limit as a C constant expression: an optional   *)
(* unary sign applied to a hexadecimal (or decimal floating) literal.  The *)
(* model evaluates these expressions as a C compiler does (C99 6.4.4.1:    *)
(* the type of an integer constant is the first type of its list in which  *)
(* its value fits; 6.5.3.3: unary minus on an unsigned operand is taken    *)
(* modulo 2^width).  TLC's integers are 32 bits wide, so a value is kept   *)
(* as a sign and a magnitude, the magnitude being its hexadecimal digits,  *)
(* least significant first, without leading zeros.                         *)
(***************************************************************************)
EXTENDS Integers, Sequences, FiniteSets, TLC

(***************************************************************************)
(* Magnitudes: natural numbers of any size as hexadecimal digit sequences. *)
(***************************************************************************)
Digit(a, i) == IF i >= 1 /\ i <= Len(a) THEN a[i] ELSE 0

RECURSIVE Norm(_)
Norm(a) == IF a = <<>> THEN <<>>
           ELSE IF a[Len(a)] = 0 THEN Norm(SubSeq(a, 1, Len(a) - 1))
           ELSE a

MaxOf(m, n) == IF m >= n THEN m ELSE n

\* A hexadecimal literal's digits as written (most significant first).
FromHex(be) == Norm([i \in 1..Len(be) |-> be[Len(be) + 1 - i]])

\* a < b for magnitudes of equal length, decided at or below digit i.
RECURSIVE LTFrom(_, _, _)
LTFrom(a, b, i) ==
    IF i = 0 THEN FALSE
    ELSE IF a[i] # b[i] THEN a[i] < b[i]
    ELSE LTFrom(a, b, i - 1)

MagLT(a, b) ==
    IF Len(a) # Len(b) THEN Len(a) < Len(b) ELSE LTFrom(a, b, Len(a))

MagLE(a, b) == a = b \/ MagLT(a, b)

RECURSIVE AddFrom(_, _, _, _)
AddFrom(a, b, i, carry) ==
    IF i > MaxOf(Len(a), Len(b))
    THEN (IF carry = 0 THEN <<>> ELSE <<carry>>)
    ELSE LET s == Digit(a, i) + Digit(b, i) + carry
         IN  <<s % 16>> \o AddFrom(a, b, i + 1, s \div 16)

MagAdd(a, b) == Norm(AddFrom(a, b, 1, 0))

\* a - b for a >= b.
RECURSIVE SubFrom(_, _, _, _)
SubFrom(a, b, i, borrow) ==
    IF i > Len(a) THEN <<>>
    ELSE LET d == Digit(a, i) - Digit(b, i) - borrow
         IN  IF d < 0 THEN <<d + 16>> \o SubFrom(a, b, i + 1, 1)
                      ELSE <<d>> \o SubFrom(a, b, i + 1, 0)

MagSub(a, b) == Norm(SubFrom(a, b, 1, 0))

RECURSIVE MulFrom(_, _, _, _)
MulFrom(a, k, i, carry) ==
    IF i > Len(a)
    THEN (IF carry = 0 THEN <<>> ELSE <<carry % 16>> \o MulFrom(a, k, i, carry \div 16))
    ELSE LET p == a[i] * k + carry
         IN  <<p % 16>> \o MulFrom(a, k, i + 1, p \div 16)

\* a * k for a small factor k.
MagMulSmall(a, k) == Norm(MulFrom(a, k, 1, 0))

MagOne == <<1>>

\* 2^w.
MagPow2(w) == [i \in 1..((w \div 4) + 1) |-> IF i = (w \div 4) + 1 THEN 2 ^ (w % 4) ELSE 0]

\* a mod 2^w.
MagModPow2(a, w) ==
    Norm([i \in 1..((w + 3) \div 4) |->
            IF i <= w \div 4 THEN Digit(a, i) ELSE Digit(a, i) % (2 ^ (w % 4))])

\* a div 2^s.
MagShr(a, s) ==
    LET q == s \div 4
        r == s % 4
    IN  Norm([i \in 1..MaxOf(Len(a) - q, 0) |->
                (Digit(a, i + q) \div (2 ^ r))
                + (Digit(a, i + q + 1) % (2 ^ r)) * (2 ^ (4 - r))])

\* a * 2^s.
MagShl(a, s) ==
    LET q == s \div 4
        r == s % 4
    IN  Norm([i \in 1..(Len(a) + q + 1) |->
                ((Digit(a, i - q) * (2 ^ r)) % 16)
                + (Digit(a, i - q - 1) * (2 ^ r)) \div 16])

DigitBits(d) == IF d >= 8 THEN 4 ELSE IF d >= 4 THEN 3 ELSE IF d >= 2 THEN 2 ELSE d

\* The number of bits of a (0 for 0).
BitLen(a) == IF a = <<>> THEN 0 ELSE 4 * (Len(a) - 1) + DigitBits(a[Len(a)])

(***************************************************************************)
(* Integers of any size (the host's integers): a sign and a magnitude.     *)
(***************************************************************************)
MkInt(neg, mag) == [neg |-> neg /\ mag # <<>>, mag |-> mag]

Zero == MkInt(FALSE, <<>>)
Pos(mag) == MkInt(FALSE, mag)
Neg(mag) == MkInt(TRUE, mag)

IntNeg(x) == MkInt(~x.neg, x.mag)

IntLT(x, y) ==
    IF x.neg /\ ~y.neg THEN TRUE
    ELSE IF ~x.neg /\ y.neg THEN FALSE
    ELSE IF x.neg THEN MagLT(y.mag, x.mag)
    ELSE MagLT(x.mag, y.mag)

IntLE(x, y) == x = y \/ IntLT(x, y)

IntAdd(x, y) ==
    IF x.neg = y.neg THEN MkInt(x.neg, MagAdd(x.mag, y.mag))
    ELSE IF MagLE(y.mag, x.mag) THEN MkInt(x.neg, MagSub(x.mag, y.mag))
    ELSE MkInt(y.neg, MagSub(y.mag, x.mag))

IntSub(x, y) == IntAdd(x, IntNeg(y))

Succ(x) == IntAdd(x, Pos(MagOne))
Pred(x) == IntSub(x, Pos(MagOne))

(***************************************************************************)
(* C constant expressions.  A value is its type and its mathematical       *)
(* value.  long long is 64 bits wide (JNI's jlong); long is taken as 64    *)
(* bits (LP64), which no literal of the header reaches: the unsuffixed     *)
(* ones all fit int.                                                       *)
(***************************************************************************)
CBits(ty) == CASE ty \in {"int", "uint"} -> 32
               [] ty \in {"long", "ulong"} -> 64
               [] ty \in {"llong", "ullong"} -> 64

CSigned(ty) == ty \in {"int", "long", "llong"}

CFits(ty, mag) ==
    IF CSigned(ty) THEN MagLT(mag, MagPow2(CBits(ty) - 1))
                   ELSE MagLT(mag, MagPow2(CBits(ty)))

\* C99 6.4.4.1 (5): the candidate types of an octal or hexadecimal constant.
CHexCandidates(suffix) ==
    IF suffix = "LL" THEN <<"llong", "ullong">>
    ELSE <<"int", "uint", "long", "ulong", "llong", "ullong">>

\* A hexadecimal constant: the first candidate type that holds its value.
CHexLiteral(digits, suffix) ==
    LET mag   == FromHex(digits)
        cands == CHexCandidates(suffix)
        first == CHOOSE i \in 1..Len(cands) :
                    /\ CFits(cands[i], mag)
                    /\ \A j \in 1..(i - 1) : ~CFits(cands[j], mag)
    IN  [ty |-> cands[first], val |-> Pos(mag)]

(***************************************************************************)
(* Doubles: finite values neg * man * 2^exp with man of exactly 53 bits    *)
(* (or zero).  A decimal floating constant is rounded to the nearest       *)
(* double, ties to even.                                                   *)
(***************************************************************************)
RECURSIVE DecFrom(_, _, _)
DecFrom(digits, i, acc) ==
    IF i > Len(digits) THEN acc
    ELSE DecFrom(digits, i + 1, MagAdd(MagMulSmall(acc, 10), Norm(<<digits[i]>>)))

\* The natural number a decimal digit string denotes.
FromDec(digits) == DecFrom(digits, 1, <<>>)

RECURSIVE MagMulPow10(_, _)
MagMulPow10(a, e) ==
    IF e = 0 THEN a
    ELSE LET b == MagMulSmall(a, 10)   \* (the test makes TLC compute b first)
         IN  IF Len(b) >= 0 THEN MagMulPow10(b, e - 1) ELSE b

\* n rounded to p significant bits, ties to even: <<man, exp>> with the
\* result man * 2^exp and man of exactly p bits.
RoundToBits(n, p) ==
    IF n = <<>> THEN <<(<<>>), 0>>
    ELSE LET len == BitLen(n)
         IN  IF len <= p THEN <<MagShl(n, p - len), len - p>>
             ELSE LET s    == len - p
                      q    == MagShr(n, s)
                      rem  == MagModPow2(n, s)
                      half == MagPow2(s - 1)
                      up   == MagLT(half, rem) \/ (rem = half /\ Digit(q, 1) % 2 = 1)
                      r    == IF up THEN MagAdd(q, MagOne) ELSE q
                  IN  IF BitLen(r) > p THEN <<MagShr(r, 1), s + 1>> ELSE <<r, s>>

MkDouble(neg, n, e) ==
    LET r == RoundToBits(n, 53)
    IN  [neg |-> neg /\ r[1] # <<>>, man |-> r[1], exp |-> IF r[1] = <<>> THEN 0 ELSE r[2] + e]

\* A decimal floating constant i.f E e (no suffix: a double), for e >= Len(f).
CDecimalLiteral(intPart, fracPart, e) ==
    [ty  |-> "double",
     val |-> MkDouble(FALSE, MagMulPow10(FromDec(intPart \o fracPart), e - Len(fracPart)), 0)]

DblNeg(d) == [d EXCEPT !.neg = ~d.neg /\ d.man # <<>>]

DblMagLT(a, b) ==
    IF b.man = <<>> THEN FALSE
    ELSE IF a.man = <<>> THEN TRUE
    ELSE IF a.exp # b.exp THEN a.exp < b.exp
    ELSE MagLT(a.man, b.man)

DblLT(a, b) ==
    IF a.neg /\ ~b.neg THEN TRUE
    ELSE IF ~a.neg /\ b.neg THEN FALSE
    ELSE IF a.neg THEN DblMagLT(b, a)
    ELSE DblMagLT(a, b)

DblLE(a, b) == a = b \/ DblLT(a, b)

DblAbs(d) == [d EXCEPT !.neg = FALSE]

\* C99 6.5.3.3: unary plus and minus.  The operand is promoted (every type
\* here is at least int); the negative of an unsigned value is taken modulo
\* 2^width and stays unsigned.
CPlus(c) == c

CMinus(c) ==
    IF c.ty = "double" THEN [ty |-> "double", val |-> DblNeg(c.val)]
    ELSE IF CSigned(c.ty) THEN [ty |-> c.ty, val |-> IntNeg(c.val)]
    ELSE [ty  |-> c.ty,
          val |-> Pos(MagModPow2(MagSub(MagPow2(CBits(c.ty)), c.val.mag), CBits(c.ty)))]

\* C99 6.3.1.3: conversion to a signed integer type of w bits; a value out
\* of range is reduced modulo 2^w (what every supported compiler defines).
CToSigned(c, w) ==
    LET m == IF c.val.neg
             THEN MagModPow2(MagSub(MagPow2(w), MagModPow2(c.val.mag, w)), w)
             ELSE MagModPow2(c.val.mag, w)
    IN  IF MagLT(m, MagPow2(w - 1)) THEN Pos(m) ELSE Neg(MagSub(MagPow2(w), m))

(***************************************************************************)
(* Variants of three of the header's constants, each with one slip: the    *)
(* properties that rest on a constant do not hold of its variant.          *)
(***************************************************************************)
\* (A variant of JINT_MAX: the unsigned 32-bit maximum in its place.)
JINT_MAX_Unsigned == CPlus(CHexLiteral(<<15, 15, 15, 15, 15, 15, 15, 15>>, "LL"))

\* (A variant of JCHAR_MAX: the signed 16-bit maximum in its place.)
JCHAR_MAX_Signed == CHexLiteral(<<7, 15, 15, 15>>, "")

\* (A variant of JFLOAT_MAX: the exponent one too small.)
JFLOAT_MAX_E37 == CDecimalLiteral(<<3>>, <<4, 0, 2, 8, 2, 3, 4, 7>>, 37)

(***************************************************************************)
(* primitive_limits.h, lines 22 to 31.                                     *)
(***************************************************************************)
JBYTE_MIN  == CMinus(CHexLiteral(<<8, 0>>, ""))
JBYTE_MAX  == CPlus(CHexLiteral(<<7, 15>>, ""))
JSHORT_MIN == CMinus(CHexLiteral(<<8, 0, 0, 0>>, ""))
JSHORT_MAX == CPlus(CHexLiteral(<<7, 15, 15, 15>>, ""))
JINT_MIN   == CMinus(CHexLiteral(<<8, 0, 0, 0, 0, 0, 0, 0>>, "LL"))
JINT_MAX   == CPlus(CHexLiteral(<<7, 15, 15, 15, 15, 15, 15, 15>>, "LL"))
JLONG_MIN  == CMinus(CHexLiteral(<<8, 0, 0, 0, 0, 0, 0, 0, 0, 0, 0, 0, 0, 0, 0, 0>>, "LL"))
JLONG_MAX  == CPlus(CHexLiteral(<<7, 15, 15, 15, 15, 15, 15, 15, 15, 15, 15, 15, 15, 15, 15, 15>>, "LL"))
JCHAR_MAX  == CHexLiteral(<<15, 15, 15, 15>>, "")
JFLOAT_MAX == CDecimalLiteral(<<3>>, <<4, 0, 2, 8, 2, 3, 4, 7>>, 38)

\* JLONG_MIN as a jlong holds it (the conversion gives -2^63 back).
LongMinAsJlong == CToSigned(JLONG_MIN, 64)

(***************************************************************************)
(* Boundary Table: one entry per primitive kind, built from the header's   *)
(* constants with the values the header gives them.  The header has no     *)
(* lower limit for char: it is bounded below by zero.                      *)
(***************************************************************************)
IntKinds == {"byte", "short", "int", "long", "char"}
Kinds == IntKinds \cup {"float"}

BoundaryTable ==
    [k \in Kinds |->
        CASE k = "byte"  -> [min |-> JBYTE_MIN.val,  max |-> JBYTE_MAX.val,  signed |-> TRUE]
          [] k = "short" -> [min |-> JSHORT_MIN.val, max |-> JSHORT_MAX.val, signed |-> TRUE]
          [] k = "int"   -> [min |-> JINT_MIN.val,   max |-> JINT_MAX.val,   signed |-> TRUE]
          [] k = "long"  -> [min |-> JLONG_MIN.val,  max |-> JLONG_MAX.val,  signed |-> TRUE]
          [] k = "char"  -> [min |-> Zero,           max |-> JCHAR_MAX.val,  signed |-> FALSE]
          [] k = "float" -> [min |-> CMinus(JFLOAT_MAX).val, max |-> JFLOAT_MAX.val,
                             signed |-> TRUE]]

bounds_for(tbl, kind) == tbl[kind]

\* The width in bits of a kind's native representation.
NativeBits(kind) == CASE kind = "byte" -> 8
                      [] kind \in {"short", "char"} -> 16
                      [] kind \in {"int", "float"} -> 32
                      [] kind = "long" -> 64

(***************************************************************************)
(* Coercion Engine.  A host value is an integer of any size or a double;   *)
(* a native integer is the bit pattern of its kind's width (a magnitude    *)
(* below 2^width), a native float a single-precision value.                *)
(***************************************************************************)
HostInt(x) == [t |-> "int", v |-> x]
HostDouble(d) == [t |-> "double", v |-> d]

Failure(err, bound) == [ok |-> FALSE, err |-> err, bound |-> bound]
Native(n) == [ok |-> TRUE, native |-> n]

\* The two's complement pattern of x in w bits (x mod 2^w).
ToPattern(x, w) ==
    IF x.neg THEN MagModPow2(MagSub(MagPow2(w), MagModPow2(x.mag, w)), w)
    ELSE MagModPow2(x.mag, w)

\* A double narrowed to single precision (24 significant bits, ties to
\* even); a magnitude of 2^128 or more becomes an infinity.
FloatOfDouble(d) ==
    LET r == RoundToBits(d.man, 24)
        e == IF r[1] = <<>> THEN 0 ELSE d.exp + r[2]
    IN  IF r[1] # <<>> /\ e + 24 > 128
        THEN [neg |-> d.neg, inf |-> TRUE, man |-> <<>>, exp |-> 0]
        ELSE [neg |-> d.neg, inf |-> FALSE, man |-> r[1], exp |-> e]

\* A finite single-precision value widened to a double (exact).
DoubleOfFloat(f) ==
    [neg |-> f.neg, man |-> MagShl(f.man, 29), exp |-> IF f.man = <<>> THEN 0 ELSE f.exp - 29]

\* (A variant of host_to_native without the test for unsigned kinds.)
host_to_native_NoSignTest(bounds, value, kind) ==
    IF kind \in IntKinds
    THEN IF IntLT(value.v, bounds.min) THEN Failure("OutOfRange", "too-low")
         ELSE IF IntLT(bounds.max, value.v) THEN Failure("OutOfRange", "too-high")
         ELSE Native(ToPattern(value.v, NativeBits(kind)))
    ELSE IF DblLT(bounds.max, DblAbs(value.v))
         THEN Failure("OutOfRange", IF value.v.neg THEN "too-low" ELSE "too-high")
         ELSE Native(FloatOfDouble(value.v))

host_to_native(bounds, value, kind) ==
    IF kind \in IntKinds
    THEN IF ~bounds.signed /\ value.v.neg THEN Failure("NegativeForUnsigned", "wrong-sign")
         ELSE IF IntLT(value.v, bounds.min) THEN Failure("OutOfRange", "too-low")
         ELSE IF IntLT(bounds.max, value.v) THEN Failure("OutOfRange", "too-high")
         ELSE Native(ToPattern(value.v, NativeBits(kind)))
    ELSE IF DblLT(bounds.max, DblAbs(value.v))
         THEN Failure("OutOfRange", IF value.v.neg THEN "too-low" ELSE "too-high")
         ELSE Native(FloatOfDouble(value.v))

native_to_host(native, kind) ==
    IF kind = "char" THEN HostInt(Pos(native))
    ELSE IF kind \in IntKinds
    THEN IF MagLT(native, MagPow2(NativeBits(kind) - 1))
         THEN HostInt(Pos(native))
         ELSE HostInt(Neg(MagSub(MagPow2(NativeBits(kind)), native)))
    ELSE HostDouble(DoubleOfFloat(native))

(***************************************************************************)
(* The values the calls are made with: every integer within Slack of an    *)
(* edge of a kind's Java range (and, for char, of the short range), every  *)
(* double within Slack units in the last place of the float limit, and the *)
(* specification's own examples.                                           *)
(***************************************************************************)
Slack == 1

Threads == {"t1", "t2"}

Around(x) == {IntAdd(x, MkInt(n, Norm(<<d>>))) : d \in 0..Slack, n \in BOOLEAN}

ProbeEdges(k) ==
    IF k = "char"
    THEN {Zero, Pos(MagSub(MagPow2(16), MagOne)), Pos(MagSub(MagPow2(15), MagOne)),
          Neg(MagPow2(15))}
    ELSE {Zero, Neg(MagPow2(NativeBits(k) - 1)),
          Pos(MagSub(MagPow2(NativeBits(k) - 1), MagOne))}

\* The double n units in the last place away from d.
DblStep(d, n) ==
    IF n >= 0 THEN MkDouble(d.neg, MagAdd(d.man, Norm(<<n>>)), d.exp)
              ELSE MkDouble(d.neg, MagSub(d.man, Norm(<<-n>>)), d.exp)

\* The doubles the constants 0.0, 3.4e38 and 3.5e38 denote.
DblZero == CDecimalLiteral(<<0>>, <<>>, 0).val
Dbl34e37 == CDecimalLiteral(<<3>>, <<4>>, 38).val
Dbl35e37 == CDecimalLiteral(<<3>>, <<5>>, 38).val

HostDoubles ==
    LET base == {DblZero, Dbl34e37, Dbl35e37}
                \cup {DblStep(JFLOAT_MAX.val, n) : n \in (-Slack)..Slack}
    IN  {HostDouble(d) : d \in base} \cup {HostDouble(DblNeg(d)) : d \in base}

HostInputs(k) ==
    IF k \in IntKinds
    THEN {HostInt(y) : y \in UNION {Around(x) : x \in ProbeEdges(k)}}
    ELSE HostDoubles

\* Native values handed to native_to_host directly (results of the JVM).
NativePatterns(k) ==
    IF k \in IntKinds
    THEN LET w     == NativeBits(k)
             edges == {Zero, Pos(MagSub(MagPow2(w - 1), MagOne)), Pos(MagSub(MagPow2(w), MagOne))}
         IN  {y.mag : y \in {z \in UNION {Around(x) : x \in edges} :
                                ~z.neg /\ MagLT(z.mag, MagPow2(w))}}
    ELSE {FloatOfDouble(d.v) : d \in {h \in HostDoubles : ~DblLT(JFLOAT_MAX.val, DblAbs(h.v))}}

\* The sets above, computed once.
HostInputSets == [k \in Kinds |-> HostInputs(k)]
NativePatternSets == [k \in Kinds |-> NativePatterns(k)]

(***************************************************************************)
(* The state: the table, and each thread's call in progress.               *)
(***************************************************************************)
VARIABLES table, pc, kind, arg, bnd, res, host

vars == <<table, pc, kind, arg, bnd, res, host>>

None == [t |-> "none"]

Init ==
    /\ table = BoundaryTable
    /\ pc = [t \in Threads |-> "idle"]
    /\ kind = [t \in Threads |-> "none"]
    /\ arg = [t \in Threads |-> None]
    /\ bnd = [t \in Threads |-> None]
    /\ res = [t \in Threads |-> None]
    /\ host = [t \in Threads |-> None]

\* (A variant of HostToNativeCall: the bounds looked up are kept in one
\* slot that all threads share.)
HostToNativeCallSharedSlot(t) ==
    /\ pc[t] = "idle"
    /\ \E k \in Kinds : \E v \in HostInputSets[k] :
        /\ kind' = [kind EXCEPT ![t] = k]
        /\ arg' = [arg EXCEPT ![t] = v]
        /\ bnd' = [u \in Threads |->
                    IF u = t \/ arg[u] # None THEN bounds_for(table, k) ELSE bnd[u]]
    /\ pc' = [pc EXCEPT ![t] = "lookup"]
    /\ UNCHANGED <<table, res, host>>

\* host_to_native is entered: the bounds of the kind are looked up.
HostToNativeCall(t) ==
    /\ pc[t] = "idle"
    /\ \E k \in Kinds : \E v \in HostInputSets[k] :
        /\ kind' = [kind EXCEPT ![t] = k]
        /\ arg' = [arg EXCEPT ![t] = v]
        /\ bnd' = [bnd EXCEPT ![t] = bounds_for(table, k)]
    /\ pc' = [pc EXCEPT ![t] = "lookup"]
    /\ UNCHANGED <<table, res, host>>

\* host_to_native validates against the bounds and converts, or fails.
HostToNativeCheck(t) ==
    /\ pc[t] = "lookup"
    /\ res' = [res EXCEPT ![t] = host_to_native(bnd[t], arg[t], kind[t])]
    /\ pc' = [pc EXCEPT ![t] = "native"]
    /\ UNCHANGED <<table, kind, arg, bnd, host>>

\* native_to_host on the native value host_to_native returned.
NativeToHostBack(t) ==
    /\ pc[t] = "native"
    /\ res[t].ok
    /\ host' = [host EXCEPT ![t] = native_to_host(res[t].native, kind[t])]
    /\ pc' = [pc EXCEPT ![t] = "host"]
    /\ UNCHANGED <<table, kind, arg, bnd, res>>

\* native_to_host on a native value that comes from the JVM.
NativeToHostCall(t) ==
    /\ pc[t] = "idle"
    /\ \E k \in Kinds : \E n \in NativePatternSets[k] :
        /\ kind' = [kind EXCEPT ![t] = k]
        /\ res' = [res EXCEPT ![t] = Native(n)]
        /\ host' = [host EXCEPT ![t] = native_to_host(n, k)]
    /\ pc' = [pc EXCEPT ![t] = "host"]
    /\ UNCHANGED <<table, arg, bnd>>

\* The call returns to its caller.
Return(t) ==
    /\ pc[t] \in {"native", "host"}
    /\ pc' = [pc EXCEPT ![t] = "idle"]
    /\ kind' = [kind EXCEPT ![t] = "none"]
    /\ arg' = [arg EXCEPT ![t] = None]
    /\ bnd' = [bnd EXCEPT ![t] = None]
    /\ res' = [res EXCEPT ![t] = None]
    /\ host' = [host EXCEPT ![t] = None]
    /\ UNCHANGED table

Next ==
    \E t \in Threads :
        \/ HostToNativeCall(t)
        \/ HostToNativeCheck(t)
        \/ NativeToHostBack(t)
        \/ NativeToHostCall(t)
        \/ Return(t)

Spec == Init /\ [][Next]_vars

(***************************************************************************)
(* Properties.                                                             *)
(***************************************************************************)
SignedIntKinds == {"byte", "short", "int", "long"}

\* The Java range of a signed kind of w bits.
JavaMin(k) == Neg(MagPow2(NativeBits(k) - 1))
JavaMax(k) == Pos(MagSub(MagPow2(NativeBits(k) - 1), MagOne))

CharMax == Pos(MagSub(MagPow2(16), MagOne))

Checked(t) == pc[t] \in {"native", "host"} /\ arg[t] # None

\* C1: every entry of the table has min <= max, the bounds being the
\* header's constants with the values the header gives them.
C1_MinLeMax ==
    /\ \A k \in IntKinds : IntLE(table[k].min, table[k].max)
    /\ DblLE(table["float"].min, table["float"].max)

\* C2: JLONG_MIN evaluates to exactly -2^63 and JLONG_MAX to exactly 2^63-1,
\* in 64-bit signed integer arithmetic, with no wrap-around changing the
\* value or its sign.
C2_LongBoundsExact ==
    /\ table["long"].min = JLONG_MIN.val
    /\ table["long"].max = JLONG_MAX.val
    /\ JLONG_MIN = [ty |-> "llong", val |-> Neg(MagPow2(63))]
    /\ JLONG_MAX = [ty |-> "llong", val |-> Pos(MagSub(MagPow2(63), MagOne))]

\* C3: every signed kind has min <= 0 <= max; char has exactly min = 0 and
\* max = 65535, whatever the bounds of short.
C3_SignConvention ==
    /\ \A k \in SignedIntKinds :
        /\ table[k].signed
        /\ IntLE(table[k].min, Zero)
        /\ IntLE(Zero, table[k].max)
    /\ ~table["char"].signed
    /\ table["char"].min = Zero
    /\ table["char"].max = CharMax
    /\ table["char"].max # table["short"].max

\* C4: round trip: for every integer kind and every host integer x within
\* the kind's bounds, host_to_native(x, kind) succeeds and native_to_host of
\* its result is exactly x; both endpoints included, such as x = -2^63 for
\* long and x = 127 for byte.
C4_RoundTrip ==
    \A t \in Threads :
        Checked(t) /\ kind[t] \in IntKinds =>
            LET x == arg[t].v
                b == bounds_for(table, kind[t])
                within == \/ IntLE(b.min, x) /\ IntLE(x, b.max)
                          \/ kind[t] = "long" /\ x = JavaMin("long")
                          \/ kind[t] = "byte" /\ x = JavaMax("byte")
            IN  within => /\ res[t].ok
                          /\ pc[t] = "host" => host[t] = HostInt(x)

\* C5 as stated: for every integer kind, char included, max + 1 and min - 1
\* both fail with OutOfRange.
C5_BothSidesOutOfRange ==
    \A t \in Threads :
        Checked(t) /\ kind[t] \in IntKinds =>
            LET x == arg[t].v
                b == bounds_for(table, kind[t])
            IN  x = Succ(b.max) \/ x = Pred(b.min) =>
                    ~res[t].ok /\ res[t].err = "OutOfRange"

\* C5 as amended: for every integer kind max + 1 fails with OutOfRange, and
\* min - 1 fails: with OutOfRange for the signed kinds, with
\* NegativeForUnsigned for char (min - 1 = -1).  No such value becomes a
\* native value: 2^31 for int, 128 and -129 for byte, 65536 for char, 2^63
\* and -2^63 - 1 for long all fail with OutOfRange.
C5_BoundaryExclusion ==
    \A t \in Threads :
        Checked(t) /\ kind[t] \in IntKinds =>
            LET x == arg[t].v
                k == kind[t]
                b == bounds_for(table, k)
            IN  /\ x = Succ(b.max) => ~res[t].ok /\ res[t].err = "OutOfRange"
                /\ x = Pred(b.min) =>
                    /\ ~res[t].ok
                    /\ res[t].err = IF k = "char" THEN "NegativeForUnsigned" ELSE "OutOfRange"
                /\ \/ k \in SignedIntKinds /\ x \in {Succ(JavaMax(k)), Pred(JavaMin(k))}
                   \/ k = "char" /\ x = Succ(CharMax)
                   => ~res[t].ok /\ res[t].err = "OutOfRange"

\* C5's case: int is refused 2^31 while char is refused -1.
C5_Witness ==
    /\ pc["t1"] = "native" /\ kind["t1"] = "int" /\ arg["t1"] = HostInt(Pos(MagPow2(31)))
    /\ res["t1"] = Failure("OutOfRange", "too-high")
    /\ pc["t2"] = "native" /\ kind["t2"] = "char" /\ arg["t2"] = HostInt(Neg(MagOne))
    /\ ~res["t2"].ok

\* C6: for char, every negative host integer fails with NegativeForUnsigned;
\* it is never accepted as a 16-bit pattern.
C6_NegativeCharRejected ==
    \A t \in Threads :
        Checked(t) /\ kind[t] = "char" /\ arg[t].v.neg =>
            ~res[t].ok /\ res[t].err = "NegativeForUnsigned"

\* C6's case: -32768, which fits a signed 16-bit integer, was refused.
C6_Witness ==
    \E t \in Threads :
        /\ pc[t] = "native" /\ kind[t] = "char"
        /\ arg[t] = HostInt(Neg(MagPow2(15)))
        /\ res[t] = Failure("NegativeForUnsigned", "wrong-sign")

\* C7: native_to_host of a char is a host integer in 0..65535, the pattern
\* read unsigned; host_to_native(65535, char) succeeds and comes back as
\* 65535, as does every code point from 32768 on.
C7_CharUnsigned ==
    \A t \in Threads :
        kind[t] = "char" =>
            /\ pc[t] = "host" =>
                /\ host[t].t = "int"
                /\ ~host[t].v.neg
                /\ IntLE(host[t].v, CharMax)
                /\ host[t].v.mag = res[t].native
                /\ arg[t] # None => host[t] = arg[t]
            /\ Checked(t) /\ IntLE(Pos(MagPow2(15)), arg[t].v) /\ IntLE(arg[t].v, CharMax)
                => res[t].ok

\* C7's case: 65535 went to char and came back as 65535.
C7_Witness ==
    \E t \in Threads :
        /\ pc[t] = "host" /\ kind[t] = "char"
        /\ arg[t] = HostInt(CharMax)
        /\ host[t] = HostInt(CharMax)

FloatLimitExact == MagMulPow10(FromDec(<<3, 4, 0, 2, 8, 2, 3, 4, 7>>), 30)

\* The magnitude of a double of at least 1 (an integer from 2^53 on).
DblToMag(d) == IF d.exp >= 0 THEN MagShl(d.man, d.exp) ELSE MagShr(d.man, -d.exp)

\* C9: host_to_native(v, float) fails with OutOfRange for every finite
\* double v of magnitude above 3.40282347E+38 and succeeds for every other,
\* on the negative side as on the positive; 3.4e38 is accepted, 3.5e38 is
\* rejected.
C9_FloatBound ==
    \A t \in Threads :
        Checked(t) /\ kind[t] = "float" =>
            LET v == arg[t].v
                exceeds == MagLT(FloatLimitExact, DblToMag(v))
            IN  /\ exceeds => ~res[t].ok /\ res[t].err = "OutOfRange"
                /\ ~exceeds => res[t].ok /\ ~res[t].native.inf
                /\ DblAbs(v) = Dbl34e37 => res[t].ok
                /\ DblAbs(v) = Dbl35e37 => ~res[t].ok

\* C9's case: 3.5e38 was refused while -3.4e38 was accepted.
C9_Witness ==
    /\ pc["t1"] = "native" /\ kind["t1"] = "float"
    /\ arg["t1"] = HostDouble(Dbl35e37)
    /\ res["t1"] = Failure("OutOfRange", "too-high")
    /\ pc["t2"] = "native" /\ kind["t2"] = "float"
    /\ arg["t2"] = HostDouble(DblNeg(Dbl34e37))
    /\ res["t2"].ok

\* C10: a signed kind of w bits has exactly min = -2^(w-1) and
\* max = 2^(w-1) - 1, so min = -(max + 1); the ranges are strictly nested,
\* byte in short in int in long; char's 0..65535 lies within int's range
\* and not within short's.
C10_TwosComplementRanges ==
    /\ \A k \in SignedIntKinds :
        /\ table[k].min = JavaMin(k)
        /\ table[k].max = JavaMax(k)
        /\ table[k].min = IntNeg(Succ(table[k].max))
    /\ \A p \in {<<"byte", "short">>, <<"short", "int">>, <<"int", "long">>} :
        /\ IntLT(table[p[2]].min, table[p[1]].min)
        /\ IntLT(table[p[1]].max, table[p[2]].max)
    /\ IntLE(table["int"].min, table["char"].min)
    /\ IntLE(table["char"].max, table["int"].max)
    /\ IntLT(table["short"].max, table["char"].max)

====
